---- MODULE Spec2Model ----
(***************************************************************************)
(* Model of the Ricoh/PFU scanner binding                                  *)
(* (public/downloads/scanner-app/native/ricoh-scanner.cc).                 *)
(*                                                                         *)
(* The binding keeps two globals, g_hScanner and g_bInitialized, and       *)
(* exports initialize, getScanners, scan and cleanup.  The vendor SDK is   *)
(* closed: every return code and out-parameter of an SDK call is an input  *)
(* chosen with \E.  The SDK calls made by the running (or last) operation  *)
(* are recorded in `calls`, and the SDK's own view of the devices (which   *)
(* handles are open, how often each was closed) in sdkOpen and closes.     *)
(* The exported functions are synchronous and run on one JavaScript        *)
(* thread, so operations never interleave: initialize, getScanners and     *)
(* cleanup are one action each, scan is split at its SDK calls by pc.      *)
(***************************************************************************)
EXTENDS Integers, Sequences, FiniteSets, TLC

VARIABLES
  g_hScanner,      \* static HANDLE g_hScanner
  g_bInitialized,  \* static bool g_bInitialized
  pc,              \* position inside Scan; "idle" between operations
  options,         \* Scan's parsed options
  scanParam,       \* Scan's SS_SCAN_PARAM
  pageCount,       \* Scan's int pageCount
  result,          \* value returned by the last operation
  lastOp,          \* name of the running / last exported operation
  calls,           \* SDK calls made by the running / last operation
  preInit,         \* g_bInitialized when that operation was entered
  preH,            \* g_hScanner when that operation was entered
  sdkOpen,         \* SDK side: handles opened and not yet closed
  closes,          \* SDK side: PfuSsCloseDevice calls received per handle
  nextHandle,      \* SDK side: next handle PfuSsOpenDevice hands out
  initSucc         \* successful PfuSsInitialize calls since the last cleanup

vars == <<g_hScanner, g_bInitialized, pc, options, scanParam, pageCount,
          result, lastOp, calls, preInit, preH, sdkOpen, closes, nextHandle,
          initSucc>>

scanVars == <<options, scanParam, pageCount>>

(***************************************************************************)
(* Bounds                                                                  *)
(***************************************************************************)
MaxOpens == 2     \* successful PfuSsOpenDevice calls in one behaviour
MaxPages == 2     \* pages the SDK delivers in one scan
MaxDevices == 2   \* largest device count PfuSsGetDeviceCount reports

(***************************************************************************)
(* Values                                                                  *)
(***************************************************************************)
NULL == 0
INT_MAX == 2147483647

\* A DWORD is 32 bits wide and unsigned; its value is hi * 2^31 + lo.
Dword(hi, lo) == [hi |-> hi, lo |-> lo]

SS_SUCCESS == Dword(0, 0)

\* Codes the SDK may return instead of SS_SUCCESS.
ErrCodes == {Dword(0, 1), Dword(0, INT_MAX), Dword(1, 0)}

RetCodes == {SS_SUCCESS} \cup ErrCodes

\* (int)dwRet: conversion of a DWORD to a 32-bit signed int.
ToInt(d) == IF d.hi = 0 THEN d.lo ELSE (d.lo - INT_MAX) - 1

\* The number n is the unsigned value of the DWORD d.
IsValueOf(n, d) == d.hi = 0 /\ n = d.lo

Handles == 1..MaxOpens

ColorModes == {"color", "grayscale", "blackwhite"}

OptionValues ==
  [scannerId : {0}, resolution : {300}, colorMode : ColorModes,
   duplex : BOOLEAN, outputPath : {"out.pdf"}]

NoOptions ==
  [scannerId |-> 0, resolution |-> 0, colorMode |-> "", duplex |-> FALSE,
   outputPath |-> ""]

\* ZeroMemory(&scanParam, sizeof(SS_SCAN_PARAM))
ZeroParam ==
  [dwResolution |-> 0, dwPixelType |-> "0", dwDuplex |-> "0",
   dwPaperSize |-> "0"]

PixelType(colorMode) ==
  IF colorMode = "color" THEN "SS_PIXELTYPE_COLOR"
  ELSE IF colorMode = "grayscale" THEN "SS_PIXELTYPE_GRAY"
  ELSE "SS_PIXELTYPE_BW"

ScanParamOf(o) ==
  [dwResolution |-> o.resolution,
   dwPixelType |-> PixelType(o.colorMode),
   dwDuplex |-> IF o.duplex THEN "SS_DUPLEX_ON" ELSE "SS_DUPLEX_OFF",
   dwPaperSize |-> "SS_PAPERSIZE_A4"]

Void == [void |-> TRUE]

\* One SDK call: the function, its return code, g_bInitialized at the time
\* of the call and the handle passed (for PfuSsOpenDevice: received).
Call(fn, ret, h) == [fn |-> fn, ret |-> ret, init |-> g_bInitialized, h |-> h]

CountOf(s, fn) == Cardinality({i \in DOMAIN s : s[i].fn = fn})

(***************************************************************************)
(* Init                                                                    *)
(***************************************************************************)
Init ==
  /\ g_hScanner = NULL
  /\ g_bInitialized = FALSE
  /\ pc = "idle"
  /\ options = NoOptions
  /\ scanParam = ZeroParam
  /\ pageCount = 0
  /\ result = Void
  /\ lastOp = "none"
  /\ calls = <<>>
  /\ preInit = FALSE
  /\ preH = NULL
  /\ sdkOpen = {}
  /\ closes = [h \in Handles |-> 0]
  /\ nextHandle = 1
  /\ initSucc = 0

\* Entry of an exported operation.
Enter(op) ==
  /\ pc = "idle"
  /\ lastOp' = op
  /\ preInit' = g_bInitialized
  /\ preH' = g_hScanner

(***************************************************************************)
(* initialize                                                              *)
(***************************************************************************)
\* Variant: the early return for an initialized SDK is missing.
AlreadyInitialized_Off == FALSE

AlreadyInitialized == g_bInitialized

Initialize ==
  /\ Enter("initialize")
  /\ UNCHANGED <<g_hScanner, pc, scanVars, sdkOpen, closes, nextHandle>>
  /\ IF AlreadyInitialized
     THEN /\ result' = [success |-> TRUE, message |-> "Already initialized"]
          /\ calls' = <<>>
          /\ UNCHANGED <<g_bInitialized, initSucc>>
     ELSE \E dwRet \in RetCodes :
            /\ calls' = <<Call("PfuSsInitialize", dwRet, NULL)>>
            /\ IF dwRet # SS_SUCCESS
               THEN /\ result' = [success |-> FALSE,
                                  error |-> "Failed to initialize Ricoh SDK",
                                  errorCode |-> ToInt(dwRet)]
                    /\ UNCHANGED <<g_bInitialized, initSucc>>
               ELSE /\ g_bInitialized' = TRUE
                    /\ initSucc' = initSucc + 1
                    /\ result' = [success |-> TRUE,
                                  message |-> "Ricoh SDK initialized successfully"]

(***************************************************************************)
(* getScanners                                                             *)
(***************************************************************************)
\* Variant: the enumeration is not guarded by g_bInitialized.
GetScannersNotInitialized_Off == FALSE

GetScannersNotInitialized == ~g_bInitialized

\* The PfuSsGetDeviceInfo calls of the enumeration loop: device i-1 is
\* reported when i-1 is in ok, and fails with code e otherwise.
InfoCalls(cnt, ok, e) ==
  [i \in 1..cnt |->
     Call("PfuSsGetDeviceInfo", IF (i - 1) \in ok THEN SS_SUCCESS ELSE e, NULL)]

ScannerEntry(i) == [id |-> i, vendor |-> "Ricoh/Fujitsu"]

GetScanners ==
  /\ Enter("getScanners")
  /\ UNCHANGED <<g_hScanner, g_bInitialized, pc, scanVars, sdkOpen, closes,
                 nextHandle, initSucc>>
  /\ IF GetScannersNotInitialized
     THEN /\ result' = [scanners |-> {}]
          /\ calls' = <<>>
     ELSE \E dwRet \in RetCodes, dwScannerCount \in 0..MaxDevices :
            IF dwRet # SS_SUCCESS \/ dwScannerCount = 0
            THEN /\ calls' = <<Call("PfuSsGetDeviceCount", dwRet, NULL)>>
                 /\ result' = [scanners |-> {}]
            ELSE \E ok \in SUBSET (0..(dwScannerCount - 1)), e \in ErrCodes :
                   /\ calls' = <<Call("PfuSsGetDeviceCount", dwRet, NULL)>>
                                 \o InfoCalls(dwScannerCount, ok, e)
                   /\ result' = [scanners |-> {ScannerEntry(i) : i \in ok}]

(***************************************************************************)
(* scan                                                                    *)
(***************************************************************************)
\* Variant: scan is not guarded by g_bInitialized.
ScanNotInitialized_Off == FALSE

ScanNotInitialized == ~g_bInitialized

\* The SDK closes the device named by h.  The binding ignores the return
\* value of PfuSsCloseDevice; the call is recorded with SS_SUCCESS.
SdkClose(h) ==
  /\ sdkOpen' = sdkOpen \ {h}
  /\ closes' = [closes EXCEPT ![h] = @ + 1]

CloseCall == Call("PfuSsCloseDevice", SS_SUCCESS, g_hScanner)

\* return from Scan: its locals go out of scope
Return(r) ==
  /\ pc' = "idle"
  /\ result' = r
  /\ options' = NoOptions
  /\ scanParam' = ZeroParam
  /\ pageCount' = 0

\* Scan, entry to the return after PfuSsOpenDevice
ScanOpen ==
  /\ Enter("scan")
  /\ UNCHANGED <<g_bInitialized, initSucc, closes>>
  /\ IF ScanNotInitialized
     THEN /\ calls' = <<>>
          /\ result' = [success |-> FALSE, error |-> "SDK not initialized"]
          /\ UNCHANGED <<g_hScanner, pc, scanVars, sdkOpen, nextHandle>>
     ELSE \E o \in OptionValues :
            \/ /\ nextHandle <= MaxOpens
               /\ g_hScanner' = nextHandle
               /\ nextHandle' = nextHandle + 1
               /\ sdkOpen' = sdkOpen \cup {nextHandle}
               /\ calls' = <<Call("PfuSsOpenDevice", SS_SUCCESS, nextHandle)>>
               /\ options' = o
               /\ pc' = "setparam"
               /\ result' = Void
               /\ UNCHANGED <<scanParam, pageCount>>
            \* on failure the SDK leaves the out-parameter alone or clears it
            \/ \E dwRet \in ErrCodes, hOut \in {g_hScanner, NULL} :
                 /\ g_hScanner' = hOut
                 /\ calls' = <<Call("PfuSsOpenDevice", dwRet, NULL)>>
                 /\ result' = [success |-> FALSE,
                               error |-> "Failed to open scanner",
                               errorCode |-> ToInt(dwRet)]
                 /\ UNCHANGED <<pc, scanVars, sdkOpen, nextHandle>>

\* Variant: the failure branch returns without closing the device.
ScanFail_NoClose(fn, dwRet, msg) ==
  /\ calls' = Append(calls, Call(fn, dwRet, g_hScanner))
  /\ Return([success |-> FALSE, error |-> msg, errorCode |-> ToInt(dwRet)])
  /\ UNCHANGED <<g_hScanner, g_bInitialized, lastOp, preInit, preH,
                 nextHandle, initSucc, sdkOpen, closes>>

\* The failure branch after PfuSsSetScanParam or PfuSsStartScan returned
\* dwRet: close the device and return the error record.
ScanFail(fn, dwRet, msg) ==
  /\ calls' = calls \o <<Call(fn, dwRet, g_hScanner), CloseCall>>
  /\ SdkClose(g_hScanner)
  /\ Return([success |-> FALSE, error |-> msg, errorCode |-> ToInt(dwRet)])
  /\ UNCHANGED <<g_hScanner, g_bInitialized, lastOp, preInit, preH,
                 nextHandle, initSucc>>

ScanSetParam ==
  /\ pc = "setparam"
  /\ \/ /\ scanParam' = ScanParamOf(options)
        /\ calls' = Append(calls, Call("PfuSsSetScanParam", SS_SUCCESS, g_hScanner))
        /\ pc' = "start"
        /\ UNCHANGED <<g_hScanner, g_bInitialized, options, pageCount, result,
                       lastOp, preInit, preH, sdkOpen, closes, nextHandle,
                       initSucc>>
     \/ \E dwRet \in ErrCodes :
          ScanFail("PfuSsSetScanParam", dwRet, "Failed to set scan parameters")

ScanStart ==
  /\ pc = "start"
  /\ \/ /\ calls' = Append(calls, Call("PfuSsStartScan", SS_SUCCESS, g_hScanner))
        /\ pageCount' = 0
        /\ pc' = "pull"
        /\ UNCHANGED <<g_hScanner, g_bInitialized, options, scanParam, result,
                       lastOp, preInit, preH, sdkOpen, closes, nextHandle,
                       initSucc>>
     \/ \E dwRet \in ErrCodes :
          ScanFail("PfuSsStartScan", dwRet, "Failed to start scan")

\* Variant: the loop body does not free the image data.
ScanPullPage_NoFree ==
  /\ pageCount < MaxPages
  /\ pageCount' = pageCount + 1
  /\ calls' = Append(calls, Call("PfuSsGetImageData", SS_SUCCESS, g_hScanner))
  /\ UNCHANGED <<g_hScanner, g_bInitialized, pc, options, scanParam, result,
                 lastOp, preInit, preH, sdkOpen, closes, nextHandle, initSucc>>

\* One iteration of the while loop whose PfuSsGetImageData succeeds.
ScanPullPage ==
  /\ pageCount < MaxPages
  /\ pageCount' = pageCount + 1
  /\ calls' = calls \o <<Call("PfuSsGetImageData", SS_SUCCESS, g_hScanner),
                         Call("PfuSsFreeImageData", SS_SUCCESS, NULL)>>
  /\ UNCHANGED <<g_hScanner, g_bInitialized, pc, options, scanParam, result,
                 lastOp, preInit, preH, sdkOpen, closes, nextHandle, initSucc>>

\* The loop test fails with dwRet: leave the loop, close, return.
ScanPullEnd(dwRet) ==
  /\ calls' = calls \o <<Call("PfuSsGetImageData", dwRet, g_hScanner), CloseCall>>
  /\ SdkClose(g_hScanner)
  /\ g_hScanner' = NULL
  /\ Return([success |-> TRUE, pageCount |-> pageCount,
             outputPath |-> options.outputPath])
  /\ UNCHANGED <<g_bInitialized, lastOp, preInit, preH, nextHandle, initSucc>>

ScanPull ==
  /\ pc = "pull"
  /\ \/ ScanPullPage
     \/ \E dwRet \in ErrCodes : ScanPullEnd(dwRet)

(***************************************************************************)
(* cleanup                                                                 *)
(***************************************************************************)
\* Variant: PfuSsUninitialize is called whether or not the SDK is initialized.
CleanupCalls_Always ==
  (IF g_hScanner # NULL THEN <<CloseCall>> ELSE <<>>)
  \o <<Call("PfuSsUninitialize", SS_SUCCESS, NULL)>>

CleanupCalls ==
  (IF g_hScanner # NULL THEN <<CloseCall>> ELSE <<>>)
  \o (IF g_bInitialized
      THEN <<Call("PfuSsUninitialize", SS_SUCCESS, NULL)>> ELSE <<>>)

Cleanup ==
  /\ Enter("cleanup")
  /\ calls' = CleanupCalls
  /\ IF g_hScanner # NULL
     THEN SdkClose(g_hScanner)
     ELSE UNCHANGED <<sdkOpen, closes>>
  /\ g_hScanner' = NULL
  /\ g_bInitialized' = FALSE
  /\ initSucc' = 0
  /\ result' = Void
  /\ UNCHANGED <<pc, scanVars, nextHandle>>

(***************************************************************************)
(* Specifications                                                          *)
(***************************************************************************)
Next ==
  \/ Initialize
  \/ GetScanners
  \/ ScanOpen
  \/ ScanSetParam
  \/ ScanStart
  \/ ScanPull
  \/ Cleanup

Spec == Init /\ [][Next]_vars

\* Scan is a synchronous function: once entered it runs to its return.
LiveSpec ==
  /\ Spec
  /\ WF_vars(ScanSetParam)
  /\ WF_vars(ScanStart)
  /\ WF_vars(ScanPull)

TypeOK ==
  /\ g_hScanner \in {NULL} \cup Handles
  /\ g_bInitialized \in BOOLEAN
  /\ pc \in {"idle", "setparam", "start", "pull"}
  /\ pageCount \in 0..MaxPages
  /\ sdkOpen \subseteq Handles
  /\ nextHandle \in 1..(MaxOpens + 1)

(***************************************************************************)
(* Properties                                                              *)
(***************************************************************************)
FnAt(i) == IF i \in DOMAIN calls THEN calls[i].fn ELSE "none"

OkAt(i, fn) == i \in DOMAIN calls /\ calls[i].fn = fn /\ calls[i].ret = SS_SUCCESS

\* C1: while g_bInitialized is false no SDK call other than PfuSsInitialize
\* is made: scan returns {success:false, error:"SDK not initialized"} and
\* getScanners returns an empty list, both without an SDK call and without
\* changing g_bInitialized or g_hScanner, and cleanup makes no SDK call.
C1_NoSdkCallWhileUninitialized ==
  /\ \A i \in DOMAIN calls : calls[i].fn # "PfuSsInitialize" => calls[i].init
  /\ (lastOp = "scan" /\ ~preInit) =>
       /\ pc = "idle"
       /\ result = [success |-> FALSE, error |-> "SDK not initialized"]
       /\ calls = <<>>
       /\ ~g_bInitialized
       /\ g_hScanner = preH
  /\ (lastOp = "getScanners" /\ ~preInit) =>
       /\ result = [scanners |-> {}]
       /\ calls = <<>>
       /\ ~g_bInitialized
       /\ g_hScanner = preH
  /\ (lastOp = "cleanup" /\ ~preInit) => calls = <<>>

\* scan was called on an uninitialized SDK that had been initialized, used
\* and cleaned up before
C1_Witness ==
  /\ lastOp = "scan"
  /\ ~preInit
  /\ nextHandle > 1
  /\ calls = <<>>

\* C2: initialize on an initialized SDK returns "Already initialized"
\* without calling PfuSsInitialize, so PfuSsInitialize succeeds at most once
\* between two cleanups; initialize on an uninitialized SDK calls
\* PfuSsInitialize once, and g_bInitialized stays false when that call fails.
C2_InitializeIdempotent ==
  /\ initSucc <= 1
  /\ (lastOp = "initialize" /\ preInit) =>
       /\ result = [success |-> TRUE, message |-> "Already initialized"]
       /\ calls = <<>>
       /\ g_bInitialized
  /\ (lastOp = "initialize" /\ ~preInit) =>
       /\ Len(calls) = 1
       /\ calls[1].fn = "PfuSsInitialize"
       /\ g_bInitialized = (calls[1].ret = SS_SUCCESS)
       /\ result.success = (calls[1].ret = SS_SUCCESS)

C2_Witness ==
  /\ lastOp = "initialize"
  /\ preInit
  /\ initSucc = 1
  /\ result.message = "Already initialized"

ForwardingCalls ==
  {"PfuSsInitialize", "PfuSsOpenDevice", "PfuSsSetScanParam", "PfuSsStartScan"}

\* C3: whenever PfuSsInitialize, PfuSsOpenDevice, PfuSsSetScanParam or
\* PfuSsStartScan returns a code other than SS_SUCCESS, the operation
\* returns success=false with errorCode equal to exactly that code and does
\* not repeat the failed call.
C3_ErrorCodeForwarded ==
  pc = "idle" =>
    \A i \in DOMAIN calls :
      (calls[i].fn \in ForwardingCalls /\ calls[i].ret # SS_SUCCESS) =>
        /\ result.success = FALSE
        /\ IsValueOf(result.errorCode, calls[i].ret)
        /\ \A j \in DOMAIN calls : j > i => calls[j].fn # calls[i].fn

C4_CleanupResets ==
  lastOp = "cleanup" =>
    /\ ~g_bInitialized
    /\ g_hScanner = NULL
    /\ CountOf(calls, "PfuSsUninitialize") = (IF preInit THEN 1 ELSE 0)

C4_SecondCleanupSilent ==
  (lastOp = "cleanup" /\ lastOp' = "cleanup") => calls' = <<>>

\* C4: after cleanup g_bInitialized is false and g_hScanner is NULL; cleanup
\* calls PfuSsUninitialize exactly once if the SDK was initialized and not at
\* all otherwise, and a cleanup that directly follows a cleanup makes no SDK
\* call.
C4_CleanupIdempotent ==
  /\ []C4_CleanupResets
  /\ [][C4_SecondCleanupSilent]_vars

C4_Witness ==
  /\ lastOp = "cleanup"
  /\ preInit
  /\ CountOf(calls, "PfuSsUninitialize") = 1

\* C5 as stated: every invocation of initialize, getScanners, scan and
\* cleanup makes its SDK call (PfuSsInitialize, PfuSsGetDeviceCount,
\* PfuSsOpenDevice, PfuSsUninitialize) whatever the binding's state.
C5_UnconditionalForwarding ==
  pc = "idle" =>
    /\ lastOp = "initialize" => CountOf(calls, "PfuSsInitialize") >= 1
    /\ lastOp = "getScanners" => CountOf(calls, "PfuSsGetDeviceCount") >= 1
    /\ lastOp = "scan" => CountOf(calls, "PfuSsOpenDevice") >= 1
    /\ lastOp = "cleanup" => CountOf(calls, "PfuSsUninitialize") >= 1

\* C5 amended: each operation makes its SDK call exactly once when the
\* binding's state admits it and not at all otherwise: initialize calls
\* PfuSsInitialize iff the SDK was not initialized; getScanners calls
\* PfuSsGetDeviceCount, scan calls PfuSsOpenDevice and cleanup calls
\* PfuSsUninitialize iff it was.
C5_GuardedForwarding ==
  /\ lastOp = "initialize" =>
       CountOf(calls, "PfuSsInitialize") = (IF preInit THEN 0 ELSE 1)
  /\ lastOp = "getScanners" =>
       CountOf(calls, "PfuSsGetDeviceCount") = (IF preInit THEN 1 ELSE 0)
  /\ lastOp = "scan" =>
       CountOf(calls, "PfuSsOpenDevice") = (IF preInit THEN 1 ELSE 0)
  /\ lastOp = "cleanup" =>
       CountOf(calls, "PfuSsUninitialize") = (IF preInit THEN 1 ELSE 0)

C5_Witness ==
  /\ lastOp = "getScanners"
  /\ ~preInit
  /\ nextHandle > 1
  /\ CountOf(calls, "PfuSsGetDeviceCount") = 0

\* C6: in any sequence of operations a handle obtained from one successful
\* PfuSsOpenDevice is passed to PfuSsCloseDevice at most once; after a scan
\* that failed at PfuSsSetScanParam or PfuSsStartScan (and closed the
\* device) a following cleanup does not close that handle again.
C6_HandleClosedAtMostOnce == \A h \in Handles : closes[h] <= 1

ScanCalls ==
  {"PfuSsOpenDevice", "PfuSsSetScanParam", "PfuSsStartScan",
   "PfuSsGetImageData", "PfuSsFreeImageData", "PfuSsCloseDevice"}

\* C7: within one scan the SDK calls are made in the order open, set
\* parameters, start, get image (repeated), close, each step only after
\* the previous one returned SS_SUCCESS; after a successful open the last
\* call before scan returns is PfuSsCloseDevice, so no device is open
\* between operations; after a failed open no further call is made.
C7_ScanCallOrder ==
  /\ pc = "idle" => sdkOpen = {}
  /\ lastOp = "scan" =>
       /\ \A i \in DOMAIN calls :
            /\ calls[i].fn \in ScanCalls
            /\ calls[i].fn = "PfuSsOpenDevice" => i = 1
            /\ calls[i].fn = "PfuSsSetScanParam" =>
                 i = 2 /\ OkAt(1, "PfuSsOpenDevice")
            /\ calls[i].fn = "PfuSsStartScan" =>
                 i = 3 /\ OkAt(2, "PfuSsSetScanParam")
            /\ calls[i].fn = "PfuSsGetImageData" =>
                 \/ OkAt(i - 1, "PfuSsStartScan")
                 \/ FnAt(i - 1) = "PfuSsFreeImageData"
                    /\ OkAt(i - 2, "PfuSsGetImageData")
            /\ calls[i].fn = "PfuSsFreeImageData" =>
                 OkAt(i - 1, "PfuSsGetImageData")
            /\ calls[i].fn = "PfuSsCloseDevice" =>
                 /\ OkAt(1, "PfuSsOpenDevice")
                 /\ i = Len(calls)
                 /\ calls[i].h = calls[1].h
                 /\ pc = "idle"
       /\ (pc = "idle" /\ OkAt(1, "PfuSsOpenDevice")) =>
            FnAt(Len(calls)) = "PfuSsCloseDevice"
       /\ (calls # <<>> /\ ~OkAt(1, "PfuSsOpenDevice")) => Len(calls) = 1

\* a scan that failed at PfuSsStartScan has returned
C7_Witness ==
  /\ lastOp = "scan"
  /\ pc = "idle"
  /\ FnAt(3) = "PfuSsStartScan"
  /\ ~OkAt(3, "PfuSsStartScan")
  /\ FnAt(4) = "PfuSsCloseDevice"

Pulls == {i \in DOMAIN calls : calls[i].fn = "PfuSsGetImageData"}

GoodPulls == {i \in Pulls : calls[i].ret = SS_SUCCESS}

C8_PullLoop ==
  (lastOp = "scan" /\ pc = "idle" /\ OkAt(3, "PfuSsStartScan")) =>
    /\ result.success = TRUE
    /\ result.pageCount = Cardinality(GoodPulls)
    /\ Cardinality(Pulls) = Cardinality(GoodPulls) + 1
    /\ \A i \in Pulls \ GoodPulls : \A j \in Pulls : j <= i
    /\ \A i \in Pulls :
         (FnAt(i + 1) = "PfuSsFreeImageData") <=> (i \in GoodPulls)
    /\ CountOf(calls, "PfuSsFreeImageData") = Cardinality(GoodPulls)

\* C8: once PfuSsStartScan succeeded, scan pulls pages until the first
\* PfuSsGetImageData that fails, frees the image data exactly once after
\* each successful pull and never after the failing one, and returns
\* success=true with pageCount the number of successful pulls, whatever the
\* failing code; with an SDK that delivers finitely many pages the loop is
\* left and scan returns.
C8_PullLoopTerminates ==
  /\ []C8_PullLoop
  /\ (pc = "pull") ~> (pc = "idle")

C8_Witness ==
  /\ lastOp = "scan"
  /\ pc = "idle"
  /\ OkAt(3, "PfuSsStartScan")
  /\ result.pageCount = 2
  /\ calls[Len(calls) - 1].ret = Dword(1, 0)
====
